---- MODULE Spec2Model ----
(***************************************************************************)
(* Model of the ListenFirst -> BigQuery export function (social-warner).   *)
(*                                                                         *)
(*   main.py            listenfirst_to_bq     the run controller           *)
(*   data_extract.py    extract_data_from_api the extraction adapter       *)
(*   data_transform.py  transform_data, process_nested_field,              *)
(*                      sanitize_column_names                              *)
(*   data_load.py       load_data_to_bq       the load adapter             *)
(*                                                                         *)
(* Python values are tagged tuples <<type, payload>>.  A Python str is a   *)
(* sequence of one-character strings, so that split, strip, replace and    *)
(* the numeric and date parsers work on characters as the code does.       *)
(* A dict is a function from its keys; a raised exception is the value     *)
(* Raise(name), threaded to the enclosing except clause.                   *)
(***************************************************************************)
EXTENDS Integers, Sequences, FiniteSets, TLC

VARIABLES
    \* the pure-function harness: which function is applied, to what
    fn,       \* "process_nested_field" | "sanitize_column_names" | "transform_data" | "run"
    args,     \* the arguments of the call
    out,      \* <<"pending">> before the call, <<"returned", value>> after
    \* listenfirst_to_bq (main.py)
    pc,               \* position of the handler
    docs,             \* export_config_docs: config id -> document
    request,          \* reports_filter of the request (NoFilter when absent)
    idx,              \* position of the for loop in export_config_docs
    processed_count,  \* main.py:60
    raw_data,         \* main.py:79
    transformed_data, \* main.py:87
    response,         \* the HTTP response, status code and N
    trace             \* per config: what was observed of it (calls made, outcomes)

vars == <<fn, args, out, pc, docs, request, idx, processed_count, raw_data,
          transformed_data, response, trace>>

pureVars == <<fn, args, out>>
runVars == <<pc, docs, request, idx, processed_count, raw_data,
             transformed_data, response, trace>>

----------------------------------------------------------------------------
(* Python values *)

None == <<"NoneType">>
PyStr(chars) == <<"str", chars>>
PyInt(n) == <<"int", n>>
PyList(items) == <<"list", items>>

IsList(x) == x[1] = "list"
IsStr(x) == x[1] = "str"

Raise(exc) == <<"raise", exc>>
Return(v) == <<"return", v>>
Raised(r) == r[1] = "raise"

EmptyDict == <<>>

\* value bound to a name once: Body(value)
With(value, Body(_)) == Body(value)

Min(S) == CHOOSE x \in S : \A y \in S : x <= y
Max(S) == CHOOSE x \in S : \A y \in S : x >= y

----------------------------------------------------------------------------
(* str methods used by the code *)

IsSpace(c) == c \in {" ", "\t", "\n"}

\* str.find(":"): index of the first ":" (1-based), 0 when there is none
RECURSIVE find(_, _, _)
find(s, ch, i) ==
    IF i > Len(s) THEN 0
    ELSE IF s[i] = ch THEN i ELSE find(s, ch, i + 1)

\* str.split(":", 1)
split1(s, ch) ==
    With(find(s, ch, 1), LAMBDA i :
        IF i = 0 THEN <<s>>
        ELSE <<SubSeq(s, 1, i - 1), SubSeq(s, i + 1, Len(s))>>)

RECURSIVE lstrip(_)
lstrip(s) == IF s # <<>> /\ IsSpace(Head(s)) THEN lstrip(Tail(s)) ELSE s

RECURSIVE rstrip(_)
rstrip(s) ==
    IF s # <<>> /\ IsSpace(s[Len(s)]) THEN rstrip(SubSeq(s, 1, Len(s) - 1)) ELSE s

strip(s) == lstrip(rstrip(s))

\* str.replace(old, new) for one-character old and new: every occurrence
replace(s, old, new) == [i \in 1..Len(s) |-> IF s[i] = old THEN new ELSE s[i]]

----------------------------------------------------------------------------
(* data_transform.py: process_nested_field *)

\* processed_dict[key] += "//" + value, or processed_dict[key] = value
dict_append_overwrite(processed_dict, key, value) ==
    (key :> value) @@ processed_dict

dict_append(processed_dict, key, value) ==
    IF key \in DOMAIN processed_dict
    THEN [processed_dict EXCEPT ![key] = @ \o <<"/", "/">> \o value]
    ELSE processed_dict @@ (key :> value)

\* the body of the for loop, lines 100-115, for one item
process_item(processed_dict, item, field_name) ==
    IF IsStr(item)
    THEN With(split1(item[2], ":"), LAMBDA parts :
             IF Len(parts) > 1
             THEN dict_append(processed_dict,
                              field_name \o <<".">> \o replace(strip(parts[1]), " ", "_"),
                              strip(parts[2]))
             ELSE dict_append(processed_dict,
                              field_name \o <<".", "u", "n", "t", "i", "t", "l", "e", "d">>,
                              item[2]))
    ELSE processed_dict

RECURSIVE process_items(_, _, _)
process_items(processed_dict, items, field_name) ==
    IF items = <<>> THEN processed_dict
    ELSE process_items(process_item(processed_dict, Head(items), field_name),
                       Tail(items), field_name)

process_nested_field(input_list, field_name) ==
    IF ~IsList(input_list) THEN EmptyDict
    ELSE IF input_list[2] = <<>> THEN EmptyDict
    ELSE With(process_items(EmptyDict, input_list[2], field_name), LAMBDA processed_dict :
             IF DOMAIN processed_dict = {} THEN EmptyDict ELSE processed_dict)

----------------------------------------------------------------------------
(* pandas values.  A DataFrame is its column labels, the dtype and the     *)
(* cells of each column (by position), and its number of rows.             *)

PyFloat(tenths) == <<"float", tenths>>   \* a finite float, in tenths
Inf == <<"inf">>                         \* float("inf")
NaN == <<"nan">>                         \* float("nan")
NaT == <<"NaT">>                         \* pandas.NaT
NA == <<"NA">>                           \* pandas.NA
Timestamp(y, m, d, H, M, S) == <<"Timestamp", <<y, m, d, H, M, S>>>>

DataFrame(columns, dtypes, data, nrows) ==
    <<"DataFrame", [columns |-> columns, dtypes |-> dtypes, data |-> data, nrows |-> nrows]>>

IsDataFrame(x) == x[1] = "DataFrame"

\* col in df.columns
HasColumn(df, col) == \E i \in 1..Len(df[2].columns) : df[2].columns[i] = col

\* positions labelled col
Positions(df, col) == {i \in 1..Len(df[2].columns) : df[2].columns[i] = col}

\* Series.isna() of one cell
isna(cell) == cell \in {None, NaN, NaT, NA}

----------------------------------------------------------------------------
(* digits, numbers and dates as text *)

Digits == <<"0", "1", "2", "3", "4", "5", "6", "7", "8", "9">>

IsDigit(c) == \E i \in 1..10 : Digits[i] = c
DigitVal(c) == (CHOOSE i \in 1..10 : Digits[i] = c) - 1

AllDigits(s) == s # <<>> /\ \A i \in 1..Len(s) : IsDigit(s[i])

RECURSIVE DecVal(_)
DecVal(s) == IF s = <<>> THEN 0 ELSE 10 * DecVal(SubSeq(s, 1, Len(s) - 1)) + DigitVal(s[Len(s)])

\* "%0<width>d"
RECURSIVE ZeroPad(_, _)
ZeroPad(n, width) ==
    IF width = 0 THEN <<>> ELSE ZeroPad(n \div 10, width - 1) \o <<Digits[(n % 10) + 1]>>

\* str(n) of a non-negative int
RECURSIVE IntToStr(_)
IntToStr(n) == IF n < 10 THEN <<Digits[n + 1]>> ELSE IntToStr(n \div 10) \o <<Digits[(n % 10) + 1]>>

\* repr of a str without quotes or escapes in it, and str(list of str)
ReprStr(s) == <<"'">> \o s \o <<"'">>

RECURSIVE ReprItems(_)
ReprItems(items) ==
    IF items = <<>> THEN <<>>
    ELSE IF Len(items) = 1 THEN ReprStr(items[1][2])
    ELSE ReprStr(items[1][2]) \o <<",", " ">> \o ReprItems(Tail(items))

\* the text to_numeric parses: an unsigned integer, one with a single
\* decimal digit, or "inf"; anything else is not a number
to_numeric_str(s) ==
    With(strip(s), LAMBDA t :
        IF AllDigits(t) THEN PyInt(DecVal(t))
        ELSE IF t = <<"i", "n", "f">> THEN Inf
        ELSE IF /\ Len(t) >= 3
                /\ t[Len(t) - 1] = "."
                /\ AllDigits(SubSeq(t, 1, Len(t) - 2))
                /\ IsDigit(t[Len(t)])
             THEN PyFloat(10 * DecVal(SubSeq(t, 1, Len(t) - 2)) + DigitVal(t[Len(t)]))
        ELSE NaN)

\* pd.to_numeric(..., errors="coerce") of one cell
to_numeric(cell) ==
    CASE cell[1] = "int" -> cell
      [] cell[1] = "float" -> cell
      [] cell[1] = "inf" -> cell
      [] cell[1] = "nan" -> NaN
      [] cell[1] = "NoneType" -> NaN
      [] cell[1] = "str" -> to_numeric_str(cell[2])
      [] cell[1] = "list" -> NaN

DaysIn(y, m) ==
    IF m \in {4, 6, 9, 11} THEN 30
    ELSE IF m = 2 THEN (IF y % 4 = 0 /\ (y % 100 # 0 \/ y % 400 = 0) THEN 29 ELSE 28)
    ELSE 31

\* the digits of s at the positions of YYYY-MM-DDTHH:MM:SS, the time
\* 00:00:00 when s is a date only
DateFields(s) ==
    [k \in 1..6 |->
        IF k > 3 /\ Len(s) = 10 THEN <<"0", "0">>
        ELSE SubSeq(s, <<1, 6, 9, 12, 15, 18>>[k], <<4, 7, 10, 13, 16, 19>>[k])]

\* the texts to_datetime parses here: YYYY-MM-DD and YYYY-MM-DDTHH:MM:SS
to_datetime_str(s) ==
    IF ~(/\ Len(s) \in {10, 19}
         /\ s[5] = "-" /\ s[8] = "-"
         /\ Len(s) = 19 => (s[11] = "T" /\ s[14] = ":" /\ s[17] = ":")
         /\ \A k \in 1..6 : AllDigits(DateFields(s)[k]))
    THEN NaT
    ELSE With([k \in 1..6 |-> DecVal(DateFields(s)[k])], LAMBDA t :
             IF /\ t[2] \in 1..12
                /\ t[3] \in 1..DaysIn(t[1], t[2])
                /\ t[4] < 24 /\ t[5] < 60 /\ t[6] < 60
             THEN <<"Timestamp", t>>
             ELSE NaT)

\* pd.to_datetime(..., errors="coerce") of one cell
to_datetime(cell) ==
    CASE cell[1] = "Timestamp" -> cell
      [] cell[1] = "NaT" -> NaT
      [] cell[1] = "nan" -> NaT
      [] cell[1] = "NoneType" -> NaT
      [] cell[1] = "str" -> to_datetime_str(cell[2])
      [] cell[1] = "list" -> NaT

\* "%Y-%m-%d" and "%Y-%m-%dT%H:%M:%S" of the fields t
FormatDate(t) == ZeroPad(t[1], 4) \o <<"-">> \o ZeroPad(t[2], 2) \o <<"-">> \o ZeroPad(t[3], 2)
FormatTime(t) == ZeroPad(t[4], 2) \o <<":">> \o ZeroPad(t[5], 2) \o <<":">> \o ZeroPad(t[6], 2)

\* Series.dt.strftime of one cell: NaT gives NaN
strftime(cell, withTime) ==
    IF cell = NaT THEN NaN
    ELSE IF withTime THEN PyStr(FormatDate(cell[2]) \o <<"T">> \o FormatTime(cell[2]))
    ELSE PyStr(FormatDate(cell[2]))

\* Series.astype("string") of one non-null cell: str() of it
astype_string(cell) ==
    CASE cell[1] = "str" -> cell
      [] cell[1] = "int" -> PyStr(IntToStr(cell[2]))
      [] cell[1] = "inf" -> PyStr(<<"i", "n", "f">>)
      [] cell[1] = "list" -> PyStr(<<"[">> \o ReprItems(cell[2]) \o <<"]">>)

----------------------------------------------------------------------------
(* data_transform.py: sanitize_column_names *)

\* str.replace(old, new, 1): only the first occurrence
replace_first(s, old, new) ==
    LET i == find(s, old, 1)
    IN  [j \in 1..Len(s) |-> IF j = i THEN new ELSE s[j]]

\* col.replace('.', '&', 1)
sanitize_first(col) == replace_first(col, ".", "&")

sanitize(col) == replace(col, ".", "&")

sanitize_column_names(df) ==
    LET sanitized_columns == [i \in 1..Len(df[2].columns) |-> sanitize(df[2].columns[i])]
    IN  <<"DataFrame", [df[2] EXCEPT !.columns = sanitized_columns]>>

----------------------------------------------------------------------------
(* data_transform.py: transform_data *)

lfm_content_tags ==
    <<"l", "f", "m", ".", "c", "o", "n", "t", "e", "n", "t", ".", "t", "a", "g", "s">>

lfm_fact_date_str ==
    <<"l", "f", "m", ".", "f", "a", "c", "t", ".", "d", "a", "t", "e", "_", "s", "t", "r">>

lfm_content_posted_on_datetime ==
    <<"l", "f", "m", ".", "c", "o", "n", "t", "e", "n", "t", ".">>
        \o <<"p", "o", "s", "t", "e", "d", "_", "o", "n", "_", "d", "a", "t", "e", "t", "i", "m", "e">>

lfm_fact_window_start_date ==
    <<"l", "f", "m", ".", "f", "a", "c", "t", ".">>
        \o <<"w", "i", "n", "d", "o", "w", "_", "s", "t", "a", "r", "t", "_", "d", "a", "t", "e">>

lfm_fact_window_end_date ==
    <<"l", "f", "m", ".", "f", "a", "c", "t", ".">>
        \o <<"w", "i", "n", "d", "o", "w", "_", "e", "n", "d", "_", "d", "a", "t", "e">>

nested_columns == {lfm_content_tags}
timestamp_columns ==
    {lfm_content_posted_on_datetime, lfm_fact_window_start_date, lfm_fact_window_end_date}

IsDict(x) == x[1] = "dict"
PyDict(f) == <<"dict", f>>

\* {**group_by, **meta_dimensions, **metrics}: a missing key is a KeyError,
\* a value that is no mapping a TypeError; a later mapping wins
columns_to_cast(transform_config) ==
    IF ~({"group_by", "meta_dimensions", "metrics"} \subseteq DOMAIN transform_config)
    THEN Raise("KeyError")
    ELSE IF \E k \in {"group_by", "meta_dimensions", "metrics"} : ~IsDict(transform_config[k])
    THEN Raise("TypeError")
    ELSE Return(transform_config["metrics"][2] @@ transform_config["meta_dimensions"][2]
                    @@ transform_config["group_by"][2])

\* float -> int64 of astype: towards zero
Trunc(tenths) == IF tenths >= 0 THEN tenths \div 10 ELSE -((-tenths) \div 10)

\* .fillna(0).astype("int64") of one cell of to_numeric's result
astype_int64(cell) ==
    CASE cell[1] = "nan" -> PyInt(0)
      [] cell[1] = "int" -> cell
      [] cell[1] = "float" -> PyInt(Trunc(cell[2]))

\* .fillna(0.0).astype("float64") of one cell of to_numeric's result
astype_float64(cell) ==
    CASE cell[1] = "nan" -> PyFloat(0)
      [] cell[1] = "int" -> PyFloat(10 * cell[2])
      [] cell[1] = "float" -> cell
      [] cell[1] = "inf" -> cell

\* lines 27-34 for one column: its new dtype and cells, or the exception.
\* astype("int64") refuses a column holding a non-finite value.
cast_column(cells, old_dtype, dtype) ==
    CASE dtype = "int64" ->
             With([r \in 1..Len(cells) |-> to_numeric(cells[r])], LAMBDA numeric :
                 IF \E r \in 1..Len(cells) : numeric[r] = Inf
                 THEN Raise("IntCastingNaNError")
                 ELSE Return(<<"int64", [r \in 1..Len(cells) |-> astype_int64(numeric[r])]>>))
      [] dtype = "float64" ->
             Return(<<"float64", [r \in 1..Len(cells) |-> astype_float64(to_numeric(cells[r]))]>>)
      [] dtype = "datetime64[ns]" ->
             Return(<<"datetime64[ns]", [r \in 1..Len(cells) |-> to_datetime(cells[r])]>>)
      [] dtype = "string" ->
             Return(<<"string", [r \in 1..Len(cells) |->
                                     IF isna(cells[r]) THEN NA ELSE astype_string(cells[r])]>>)
      [] OTHER -> Return(<<old_dtype, cells>>)

RECURSIVE SetToSeq(_)
SetToSeq(S) ==
    IF S = {} THEN <<>> ELSE LET x == CHOOSE x \in S : TRUE IN <<x>> \o SetToSeq(S \ {x})

\* transformed_df = raw_df: the same object under a second name
copy_alias(df) == [df |-> df, same_object |-> TRUE]

\* raw_df.copy(): a new object holding the same values
copy(df) == [df |-> df, same_object |-> FALSE]

\* an exception raised while the DataFrame object df had been changed in
\* place as far as df
RaiseAt(exc, df) == <<"raise", exc, df>>

\* df with the dtype and cells of column i replaced
SetColumn(df, i, dtype, cells) ==
    DataFrame(df[2].columns,
              [df[2].dtypes EXCEPT ![i] = dtype],
              [df[2].data EXCEPT ![i] = cells],
              df[2].nrows)

\* the position of the column labelled col
Position(df, col) == CHOOSE i \in 1..Len(df[2].columns) : df[2].columns[i] = col

\* the for loop of lines 25-34: transformed_df[column] = ... changes the
\* object in place, one declared column after the other
RECURSIVE cast_loop(_, _, _)
cast_loop(df, type_map, todo) ==
    IF todo = <<>> THEN Return(df)
    ELSE IF ~HasColumn(df, Head(todo)) THEN cast_loop(df, type_map, Tail(todo))
    ELSE With(Position(df, Head(todo)), LAMBDA i :
         With(cast_column(df[2].data[i], df[2].dtypes[i], type_map[Head(todo)]), LAMBDA r :
             IF Raised(r) THEN RaiseAt(r[2], df)
             ELSE cast_loop(SetColumn(df, i, r[2][1], r[2][2]), type_map, Tail(todo))))

cast_columns(df, type_map) == cast_loop(df, type_map, SetToSeq(DOMAIN type_map))

\* the positions of df's columns not labelled col, in order
RECURSIVE PositionsOfOthers(_, _, _)
PositionsOfOthers(columns, col, i) ==
    IF i > Len(columns) THEN <<>>
    ELSE (IF columns[i] = col THEN <<>> ELSE <<i>>) \o PositionsOfOthers(columns, col, i + 1)

\* the nested column left in place
drop_nothing(df, col) == df

\* the columns of df at the positions keep
Take(df, keep) ==
    DataFrame([j \in 1..Len(keep) |-> df[2].columns[keep[j]]],
              [j \in 1..Len(keep) |-> df[2].dtypes[keep[j]]],
              [j \in 1..Len(keep) |-> df[2].data[keep[j]]],
              df[2].nrows)

\* df.drop(col, axis=1)
drop(df, col) == Take(df, PositionsOfOthers(df[2].columns, col, 1))

\* line 45: the mappings parsed spread over new columns, one per key; a
\* key a row lacks is None there
Spread(parsed, keys) ==
    [j \in 1..Len(keys) |->
        [r \in 1..Len(parsed) |->
            IF keys[j] \in DOMAIN parsed[r] THEN PyStr(parsed[r][keys[j]]) ELSE None]]

\* pd.concat([df, aux_df], axis=1), aux_df of dtype object
concat_columns(df, keys, aux) ==
    DataFrame(df[2].columns \o keys,
              df[2].dtypes \o [j \in 1..Len(keys) |-> "object"],
              df[2].data \o aux,
              df[2].nrows)

\* lines 43-49: line 43 replaces each cell by its parsed mapping, in place;
\* line 45 spreads the mappings over new columns; lines 47 and 49 bind
\* transformed_df to a new object, the columns appended and the nested
\* column dropped.  first is the first object as line 43 left it.
process_nested_column(df, col) ==
    With(Position(df, col), LAMBDA i :
    With([r \in 1..df[2].nrows |-> process_nested_field(df[2].data[i][r], col)], LAMBDA parsed :
    With(SetColumn(df, i, df[2].dtypes[i], [r \in 1..df[2].nrows |-> PyDict(parsed[r])]),
         LAMBDA in_place :
    With(SetToSeq(UNION {DOMAIN parsed[r] : r \in 1..df[2].nrows}), LAMBDA keys :
        [df |-> drop(concat_columns(in_place, keys, Spread(parsed, keys)), col),
         first |-> in_place,
         rebound |-> TRUE]))))

\* lines 40-52
RECURSIVE process_nested_columns(_, _)
process_nested_columns(st, cols) ==
    IF cols = <<>> THEN st
    ELSE IF ~HasColumn(st.df, Head(cols)) THEN process_nested_columns(st, Tail(cols))
    ELSE With(process_nested_column(st.df, Head(cols)), LAMBDA next :
             process_nested_columns(
                 [next EXCEPT !.first = IF st.rebound THEN st.first ELSE next.first],
                 Tail(cols)))

\* df[col] = df[col].dt.strftime(fmt): .dt is an AttributeError unless the
\* column is of a datetime dtype
dt_strftime(df, col, withTime) ==
    With(Position(df, col), LAMBDA i :
        IF df[2].dtypes[i] # "datetime64[ns]" THEN RaiseAt("AttributeError", df)
        ELSE Return(SetColumn(df, i, "object",
                              [r \in 1..df[2].nrows |-> strftime(df[2].data[i][r], withTime)])))

\* lines 55-60
RECURSIVE format_dates(_, _)
format_dates(df, cols) ==
    IF cols = <<>> THEN Return(df)
    ELSE IF ~HasColumn(df, Head(cols)) THEN format_dates(df, Tail(cols))
    ELSE With(dt_strftime(df, Head(cols), Head(cols) # lfm_fact_date_str), LAMBDA r :
             IF Raised(r) THEN r ELSE format_dates(r[2], Tail(cols)))

\* DataFrame.to_dict(orient='records')
to_dict_records(df) ==
    PyList([r \in 1..df[2].nrows |->
               [c \in {df[2].columns[i] : i \in 1..Len(df[2].columns)} |->
                   df[2].data[Max(Positions(df, c))][r]]])

\* lines 54-70, on the state the nested columns left
transform_tail(nested) ==
    With(format_dates(nested.df, <<lfm_fact_date_str>> \o SetToSeq(timestamp_columns)),
         LAMBDA dated :
        IF Raised(dated)
        THEN RaiseAt(dated[2], IF nested.rebound THEN nested.first ELSE dated[3])
        ELSE Return(to_dict_records(sanitize_column_names(dated[2]))))

\* the try block, lines 16-70.  A raised exception carries the state in
\* which it leaves the object that line 17 made.
transform_try(raw_df, transform_config) ==
    With(copy(raw_df).df, LAMBDA transformed_df :
    With(columns_to_cast(transform_config), LAMBDA type_map :
        IF Raised(type_map) THEN RaiseAt(type_map[2], transformed_df)
        ELSE With(cast_columns(transformed_df, type_map[2]), LAMBDA casted :
                 IF Raised(casted) THEN casted
                 ELSE transform_tail(process_nested_columns(
                          [df |-> casted[2], first |-> casted[2], rebound |-> FALSE],
                          SetToSeq(nested_columns))))))

\* except Exception: return raw_df, the caller's object as it is by then
transform_except(raw_df, r) == IF copy(raw_df).same_object THEN r[3] ELSE raw_df

\* transform_data, and the exception its try block ended with ("none"
\* when it returned)
transform_outcome(raw_df, transform_config) ==
    With(transform_try(raw_df, transform_config), LAMBDA r :
        IF Raised(r)
        THEN [value |-> transform_except(raw_df, r), exception |-> r[2]]
        ELSE [value |-> r[2], exception |-> "none"])

transform_data(raw_df, transform_config) == transform_outcome(raw_df, transform_config).value

----------------------------------------------------------------------------
(* Inputs of process_nested_field: every list of at most MaxItems items    *)
(* holding at most MaxChars characters in all, over the characters the     *)
(* parser tells apart, and values that are not lists.                      *)

MaxItems == 2
MaxChars == 5

Chars == {"a", " ", ":"}

StrsUpTo(n) == UNION {[1..k -> Chars] : k \in 0..n}

NonStrItems == {PyInt(7), None}

ItemsWithin(budget) ==
    {PyStr(s) : s \in StrsUpTo(budget)} \cup (IF budget >= 1 THEN NonStrItems ELSE {})

Cost(item) == IF IsStr(item) THEN Len(item[2]) ELSE 1

RECURSIVE ListsWithin(_, _)
ListsWithin(k, budget) ==
    {<<>>} \cup
    (IF k = 0 THEN {}
     ELSE UNION {{<<item>> \o rest : rest \in ListsWithin(k - 1, budget - Cost(item))} :
                 item \in ItemsWithin(budget)})

FieldNames == {<<"x">>, lfm_content_tags}

ParseInputs ==
    {PyList(l) : l \in ListsWithin(MaxItems, MaxChars)}
        \cup {None, PyInt(7), PyStr(<<"a", ":", "a">>)}

\* the run controller is idle while a pure function is exercised
RunIdle ==
    /\ pc = "idle"
    /\ docs = <<>>
    /\ request = None
    /\ idx = 0
    /\ processed_count = 0
    /\ raw_data = None
    /\ transformed_data = None
    /\ response = None
    /\ trace = <<>>

InitParse ==
    /\ fn = "process_nested_field"
    /\ args \in [input_list : ParseInputs, field_name : FieldNames]
    /\ out = <<"pending">>
    /\ RunIdle

CallProcessNestedField ==
    /\ fn = "process_nested_field"
    /\ out = <<"pending">>
    /\ out' = <<"returned", process_nested_field(args.input_list, args.field_name)>>
    /\ UNCHANGED <<fn, args>>
    /\ UNCHANGED runVars

NextParse == CallProcessNestedField

SpecParse == InitParse /\ [][NextParse]_vars

----------------------------------------------------------------------------
(* Inputs of sanitize_column_names: DataFrames of at most MaxCols columns  *)
(* whose labels hold at most MaxNameChars characters in all, over a        *)
(* letter, the dot and the ampersand.                                      *)

MaxCols == 2
MaxNameChars == 4

NameChars == {"a", ".", "&"}

RECURSIVE LabelsWithin(_, _)
LabelsWithin(k, budget) ==
    {<<>>} \cup
    (IF k = 0 THEN {}
     ELSE UNION {{<<label>> \o rest : rest \in LabelsWithin(k - 1, budget - Len(label))} :
                 label \in UNION {[1..n -> NameChars] : n \in 0..budget}})

\* a DataFrame of one row of None under the given labels
FrameOfLabels(labels) ==
    DataFrame(labels,
              [i \in 1..Len(labels) |-> "object"],
              [i \in 1..Len(labels) |-> <<None>>],
              1)

InitSanitize ==
    /\ fn = "sanitize_column_names"
    /\ args \in [df : {FrameOfLabels(l) : l \in LabelsWithin(MaxCols, MaxNameChars)}]
    /\ out = <<"pending">>
    /\ RunIdle

CallSanitizeColumnNames ==
    /\ fn = "sanitize_column_names"
    /\ out = <<"pending">>
    /\ out' = <<"returned", sanitize_column_names(args.df)>>
    /\ UNCHANGED <<fn, args>>
    /\ UNCHANGED runVars

\* sanitize_column_names applied to its own result
CallSanitizeColumnNamesAgain ==
    /\ fn = "sanitize_column_names"
    /\ out[1] = "returned"
    /\ out' = <<"reapplied", out[2], sanitize_column_names(out[2])>>
    /\ UNCHANGED <<fn, args>>
    /\ UNCHANGED runVars

NextSanitize == CallSanitizeColumnNames \/ CallSanitizeColumnNamesAgain

SpecSanitize == InitSanitize /\ [][NextSanitize]_vars

HasDot(label) == \E i \in 1..Len(label) : label[i] = "."

\* C9: sanitize_column_names is idempotent and complete: applied twice it
\* gives the labels it gives applied once, no label of its result holds a
\* '.', and the result's labels are the input's with each '.' made '&'.
C9_SanitizeIdempotentNoDots ==
    /\ (fn = "sanitize_column_names" /\ out[1] \in {"returned", "reapplied"}) =>
           /\ \A i \in 1..Len(out[2][2].columns) : ~HasDot(out[2][2].columns[i])
           /\ Len(out[2][2].columns) = Len(args.df[2].columns)
           /\ \A i \in 1..Len(out[2][2].columns) :
                  /\ Len(out[2][2].columns[i]) = Len(args.df[2].columns[i])
                  /\ \A j \in 1..Len(out[2][2].columns[i]) :
                         out[2][2].columns[i][j] =
                             IF args.df[2].columns[i][j] = "." THEN "&"
                             ELSE args.df[2].columns[i][j]
    /\ (fn = "sanitize_column_names" /\ out[1] = "reapplied") => out[3] = out[2]

\* applied twice to a frame with a label of several dots and a label that
\* already holds an ampersand
C9_Witness ==
    /\ fn = "sanitize_column_names"
    /\ out[1] = "reapplied"
    /\ args.df[2].columns = <<<<".", "a", ".">>, <<"&">>>>
    /\ out[3][2].columns = <<<<"&", "a", "&">>, <<"&">>>>

----------------------------------------------------------------------------
(* Inputs of transform_data: batches of at most MaxRows rows over three    *)
(* columns, each present or not, and export configs that declare each      *)
(* column or not, well-formed or not.                                      *)

MaxRows == 2

tiktok_post_likes ==
    <<"t", "i", "k", "t", "o", "k", ".", "p", "o", "s", "t", ".", "l", "i", "k", "e", "s">>

views_10 == <<"v", "i", "e", "w", "s", ":", " ", "1", "0">>
views_20 == <<"v", "i", "e", "w", "s", ":", " ", "2", "0">>
likes_5 == <<"l", "i", "k", "e", "s", ":", "5">>
date_2024_01_15 == <<"2", "0", "2", "4", "-", "0", "1", "-", "1", "5">>

TagsCells == {None, PyList(<<PyStr(views_10), PyStr(views_20), PyStr(likes_5)>>)}

DateCells == {PyStr(date_2024_01_15), PyStr(<<"n", "/", "a">>), Timestamp(2024, 1, 15, 0, 0, 0)}

\* the marker of a row the source flags, which is no number either
unauthorized == <<"u", "n", "a", "u", "t", "h", "o", "r", "i", "z", "e", "d">>

LikesCells == {PyStr(<<"1", "2">>), PyStr(<<"i", "n", "f">>), PyStr(unauthorized), None}

\* the dtype pandas gives a column of these cells
InferDtype(cells) ==
    IF cells # <<>> /\ \A r \in 1..Len(cells) : cells[r][1] \in {"Timestamp", "NaT"}
    THEN "datetime64[ns]"
    ELSE "object"

\* the DataFrame of the chosen columns: each of tags, date, likes is either
\* Absent or the sequence of its cells
Absent == <<"absent">>

Batch(nrows, tags, date, likes) ==
    LET chosen == SelectSeq(<<<<lfm_content_tags, tags>>, <<lfm_fact_date_str, date>>,
                              <<tiktok_post_likes, likes>>>>,
                            LAMBDA c : c[2] # Absent)
    IN  DataFrame([i \in 1..Len(chosen) |-> chosen[i][1]],
                  [i \in 1..Len(chosen) |-> InferDtype(chosen[i][2][2])],
                  [i \in 1..Len(chosen) |-> chosen[i][2][2]],
                  nrows)

ColumnChoices(nrows, Cells) == {Absent} \cup {<<"cells", c>> : c \in [1..nrows -> Cells]}

\* a type map of one column, or of none
TypeMaps(col, dtypes) == {PyDict(EmptyDict)} \cup {PyDict(col :> t) : t \in dtypes}

WellFormedConfigs ==
    {[dataset_id |-> "content", brands |-> <<1>>,
      group_by |-> g, meta_dimensions |-> m, metrics |-> k] :
         g \in TypeMaps(lfm_fact_date_str, {"datetime64[ns]"}),
         m \in TypeMaps(lfm_content_tags, {"string", "object"}),
         k \in TypeMaps(tiktok_post_likes, {"int64", "float64"})}

\* a document without metrics, and one whose metrics is a list
MalformedConfigs ==
    {[dataset_id |-> "content", brands |-> <<1>>,
      group_by |-> PyDict(EmptyDict), meta_dimensions |-> PyDict(EmptyDict)],
     [dataset_id |-> "content", brands |-> <<1>>,
      group_by |-> PyDict(EmptyDict), meta_dimensions |-> PyDict(EmptyDict),
      metrics |-> PyList(<<>>)]}

Configs == WellFormedConfigs \cup MalformedConfigs

InitTransform ==
    /\ fn = "transform_data"
    /\ \E n \in 0..MaxRows :
           \E tags \in ColumnChoices(n, TagsCells),
              date \in ColumnChoices(n, DateCells),
              likes \in ColumnChoices(n, LikesCells) :
               args \in [raw_df : {Batch(n, tags, date, likes)}, transform_config : Configs]
    /\ out = <<"pending">>
    /\ RunIdle

CallTransformData ==
    /\ fn = "transform_data"
    /\ out = <<"pending">>
    /\ out' = With(transform_outcome(args.raw_df, args.transform_config), LAMBDA o :
                  <<"returned", o.value, o.exception>>)
    /\ UNCHANGED <<fn, args>>
    /\ UNCHANGED runVars

NextTransform == CallTransformData

SpecTransform == InitTransform /\ [][NextTransform]_vars

----------------------------------------------------------------------------
(* data_extract.py: format_date and extract_data_from_api *)

\* whether s holds sub at position p
StartsAt(s, sub, p) == p + Len(sub) - 1 <= Len(s) /\ SubSeq(s, p, p + Len(sub) - 1) = sub

\* "content" in dataset_id
Contains(s, sub) == \E p \in 1..(Len(s) + 1) : StartsAt(s, sub, p)

\* the position after the run of blanks, or of digits, that starts at p
RECURSIVE SkipSpaces(_, _)
SkipSpaces(s, p) == IF p <= Len(s) /\ IsSpace(s[p]) THEN SkipSpaces(s, p + 1) ELSE p

RECURSIVE SkipDigits(_, _)
SkipDigits(s, p) == IF p <= Len(s) /\ IsDigit(s[p]) THEN SkipDigits(s, p + 1) ELSE p

nDaysAgo == <<"{", "{", "n", "D", "a", "y", "s", "A", "g", "o">>

\* re.findall(r"\{\{nDaysAgo\s+(\d+)\}\}", s) from position p on: the digits
\* of each match, or <<>>.  \s+ and (\d+) take all they can; what follows
\* the digits is no digit, so no shorter run of digits could match.
MatchAt(s, p) ==
    LET a == p + Len(nDaysAgo)
        b == SkipSpaces(s, a)
        c == SkipDigits(s, b)
    IN  IF StartsAt(s, nDaysAgo, p) /\ b > a /\ c > b /\ StartsAt(s, <<"}", "}">>, c)
        THEN SubSeq(s, b, c - 1)
        ELSE <<>>

findall_nDaysAgo(s) ==
    LET hits == {p \in 1..Len(s) : MatchAt(s, p) # <<>>}
    IN  IF hits = {} THEN <<>> ELSE <<MatchAt(s, Min(hits))>>

\* date.today()
Today == <<2024, 3, 1>>

\* day - timedelta(days=n)
RECURSIVE DaysBefore(_, _)
DaysBefore(day, n) ==
    IF n = 0 THEN day
    ELSE DaysBefore(IF day[3] > 1 THEN <<day[1], day[2], day[3] - 1>>
                    ELSE IF day[2] > 1 THEN <<day[1], day[2] - 1, DaysIn(day[1], day[2] - 1)>>
                    ELSE <<day[1] - 1, 12, 31>>,
                    n - 1)

\* format_date: the except clause logs and falls off the end of the
\* function, so a value that is no template gives None, not an exception
format_date(lf_date) ==
    IF ~IsStr(lf_date) THEN None
    ELSE LET found == findall_nDaysAgo(lf_date[2])
         IN  IF found = <<>> THEN None
             ELSE LET day == DaysBefore(Today, DecVal(found[1]))
                  IN  PyStr(ZeroPad(day[1], 4) \o <<"-">> \o ZeroPad(day[2], 2)
                                \o <<"-">> \o ZeroPad(day[3], 2))

required_fields == {"dataset_id", "metrics", "group_by", "meta_dimensions", "brands"}

\* pd.concat(aggregated_data) of pages with the same columns; no page at
\* all is a ValueError
concat(pages) ==
    IF pages = <<>> THEN Raise("ValueError")
    ELSE LET first == pages[1][2]
             RECURSIVE cells(_, _)
             cells(i, k) ==
                 IF k > Len(pages) THEN <<>> ELSE pages[k][2].data[i] \o cells(i, k + 1)
             RECURSIVE rows(_)
             rows(k) == IF k > Len(pages) THEN 0 ELSE pages[k][2].nrows + rows(k + 1)
         IN  Return(DataFrame(first.columns,
                              first.dtypes,
                              [i \in 1..Len(first.columns) |-> cells(i, 1)],
                              rows(1)))

\* what client.async_analytic_query gives: an error, or the pages
ApiError == <<"error">>
ApiPages(pages) == <<"pages", pages>>

\* extract_data_from_api.  ret is what it returns or raises, query_calls
\* the calls of client.async_analytic_query it made, date_filter the values
\* of the BETWEEN filter it put in the query (None when it put none).
extract_data_from_api(config, start_date, end_date, api) ==
    IF ~(required_fields \subseteq DOMAIN config)
    THEN [ret |-> Raise("ValueError"), query_calls |-> 0, date_filter |-> None]
    ELSE LET date_filter ==
                 IF Contains(config.dataset_id, <<"c", "o", "n", "t", "e", "n", "t">>)
                 THEN <<format_date(start_date), format_date(end_date)>>
                 ELSE None
             data == IF api = ApiError THEN Raise("RuntimeError") ELSE concat(api[2])
         IN  [ret |-> IF Raised(data) THEN Raise("RuntimeError") ELSE data,
              query_calls |-> 1,
              date_filter |-> date_filter]

----------------------------------------------------------------------------
(* data_load.py: load_data_to_bq *)

\* "len(transformed_data) == 0": a DataFrame has a length
is_empty(records) ==
    IF IsDataFrame(records) THEN Return(records[2].nrows = 0)
    ELSE Return(records[2] = <<>>)

\* "not transformed_data": the truth value of a DataFrame is a ValueError,
\* an empty list is falsy
is_falsy(records) ==
    IF IsDataFrame(records) THEN Raise("ValueError")
    ELSE Return(records[2] = <<>>)

\* the load job's outcome is logged and not raised again
load_job_swallowed(job) == Return(None)

\* lines 36-62: the outcome of load_job.result(), an error of the job
\* raised again as RuntimeError
load_job(job) == IF job = "ok" THEN Return(None) ELSE Raise("RuntimeError")

\* load_data_to_bq.  load_jobs is the number of load jobs it submitted
\* (bq_client.load_table_from_json), job the outcome of the one it submits.
load_data_to_bq(records, job) ==
    LET empty == is_falsy(records)
    IN  IF Raised(empty) THEN [ret |-> empty, load_jobs |-> 0]
        ELSE IF empty[2] THEN [ret |-> Raise("ValueError"), load_jobs |-> 0]
        ELSE [ret |-> load_job(job), load_jobs |-> 1]

----------------------------------------------------------------------------
(* main.py: listenfirst_to_bq *)

\* export_config_doc.get(key, default) for every key
build_fetch_data_get(export_config_doc) ==
    LET get(k, default) == IF k \in DOMAIN export_config_doc
                           THEN export_config_doc[k] ELSE default
    IN  Return([dataset_id |-> get("dataset_id", <<>>),
                metrics |-> SetToSeq(DOMAIN get("metrics", PyDict(EmptyDict))[2]),
                group_by |-> SetToSeq(DOMAIN get("group_by", PyDict(EmptyDict))[2]),
                meta_dimensions |-> SetToSeq(DOMAIN get("meta_dimensions", PyDict(EmptyDict))[2]),
                brands |-> get("brands", <<>>)])

\* lines 72-78: export_config_doc[key] of a missing key is a KeyError
build_fetch_data(export_config_doc) ==
    IF ~(required_fields \subseteq DOMAIN export_config_doc) THEN Raise("KeyError")
    ELSE Return([dataset_id |-> export_config_doc.dataset_id,
                 metrics |-> SetToSeq(DOMAIN export_config_doc.metrics[2]),
                 group_by |-> SetToSeq(DOMAIN export_config_doc.group_by[2]),
                 meta_dimensions |-> SetToSeq(DOMAIN export_config_doc.meta_dimensions[2]),
                 brands |-> export_config_doc.brands])

\* what is observed of a config before it is reached
NotReached ==
    [attempted |-> FALSE, extract_calls |-> 0, query_calls |-> 0, api |-> "none",
     date_filter |-> None, transformed |-> "none", load_jobs |-> 0, job |-> "none",
     logged |-> "none"]

\* whether the loop processes config i (lines 64-65)
Selected(i) ==
    request.reports_filter = None \/ PyStr(docs[i].config_id) = request.reports_filter

\* the except clause of lines 107-111 left out: the exception reaches the
\* outer except clause, which answers 500
except_config_missing(i, observed) ==
    /\ trace' = [trace EXCEPT ![i] = [observed EXCEPT !.logged = "CRITICAL"]]
    /\ response' = [status |-> 500, processed |-> 0]
    /\ pc' = "done"
    /\ UNCHANGED <<idx, processed_count>>

\* lines 107-111: an exception while config i is processed is logged as
\* ERROR, and the loop goes on with the next config.  observed is what was
\* seen of the config up to the exception.
except_config(i, observed) ==
    /\ trace' = [trace EXCEPT ![i] = [observed EXCEPT !.logged = "ERROR"]]
    /\ idx' = i + 1
    /\ pc' = "loop"
    /\ UNCHANGED <<processed_count, response>>

----------------------------------------------------------------------------
(* Inputs of listenfirst_to_bq: the request, at most MaxConfigs export     *)
(* config documents, complete or lacking one required field, and for each  *)
(* the answer of the source API (an error, or at most MaxPages pages) and   *)
(* of the load job.                                                        *)

MaxConfigs == 2
MaxPages == 2

ConfigIds == <<"c1", "c2", "c3", "c4">>

content_posts == <<"c", "o", "n", "t", "e", "n", "t", "_", "p", "o", "s", "t", "s">>
brand_metrics == <<"b", "r", "a", "n", "d", "_", "m", "e", "t", "r", "i", "c", "s">>

CompleteDocs ==
    {[dataset_id |-> d, brands |-> <<1>>,
      group_by |-> PyDict(EmptyDict),
      meta_dimensions |-> PyDict(lfm_content_tags :> "object"),
      metrics |-> PyDict(tiktok_post_likes :> "int64")] : d \in {content_posts, brand_metrics}}

Without(doc, field) == [k \in DOMAIN doc \ {field} |-> doc[k]]

IncompleteDocs ==
    {Without(CHOOSE doc \in CompleteDocs : doc.dataset_id = content_posts, field) :
         field \in required_fields}

nDaysAgo_7 == nDaysAgo \o <<" ", "7", "}", "}">>
nDaysAgo_1 == nDaysAgo \o <<" ", "1", "}", "}">>

\* reports_filter, start_date and end_date of the request body
Requests ==
    {[reports_filter |-> f, start_date |-> d[1], end_date |-> d[2]] :
         f \in {None, PyStr("c1"), PyStr("c2")},
         d \in {<<PyStr(nDaysAgo_7), PyStr(nDaysAgo_1)>>,
                <<PyStr(date_2024_01_15), PyStr(nDaysAgo_1)>>,
                <<None, None>>}}

\* pages of the columns tags and likes: one row that transforms, one row
\* whose likes cannot be cast to int64, and no row
Pages ==
    {Batch(1, <<"cells", <<PyList(<<PyStr(views_10), PyStr(views_20), PyStr(likes_5)>>)>>>>,
           Absent, <<"cells", <<PyStr(<<"1", "2">>)>>>>),
     Batch(1, <<"cells", <<None>>>>, Absent, <<"cells", <<PyStr(<<"i", "n", "f">>)>>>>),
     Batch(0, <<"cells", <<>>>>, Absent, <<"cells", <<>>>>)}

ApiOutcomes ==
    {ApiError} \cup {ApiPages(pages) : pages \in UNION {[1..n -> Pages] : n \in 0..MaxPages}}

\* what the source API gave, in a word
ApiSummary(api) ==
    IF api = ApiError THEN "error"
    ELSE IF api[2] = <<>> THEN "no pages"
    ELSE IF \A k \in 1..Len(api[2]) : api[2][k][2].nrows = 0 THEN "no rows"
    ELSE "rows"

PureIdle ==
    /\ fn = "listenfirst_to_bq"
    /\ args = <<>>
    /\ out = <<"pending">>

Init ==
    /\ PureIdle
    /\ pc = "start"
    /\ \E n \in 1..MaxConfigs :
           docs \in [1..n -> {[config_id |-> ConfigIds[i], doc |-> d] :
                                  i \in 1..n, d \in CompleteDocs \cup IncompleteDocs}]
    /\ \A i \in DOMAIN docs : docs[i].config_id = ConfigIds[i]
    /\ request \in Requests
    /\ idx = 0
    /\ processed_count = 0
    /\ raw_data = None
    /\ transformed_data = None
    /\ response = None
    /\ trace = [i \in DOMAIN docs |-> NotReached]

\* lines 29-60: the request is read, the client authenticated and the
\* configurations fetched
Start ==
    /\ pc = "start"
    /\ pc' = "loop"
    /\ idx' = 1
    /\ processed_count' = 0
    /\ UNCHANGED <<docs, request, raw_data, transformed_data, response, trace>>
    /\ UNCHANGED pureVars

\* lines 118-123: authentication or the fetch of the configurations fails
StartFails ==
    /\ pc = "start"
    /\ pc' = "done"
    /\ response' = [status |-> 500, processed |-> 0]
    /\ UNCHANGED <<docs, request, idx, processed_count, raw_data, transformed_data, trace>>
    /\ UNCHANGED pureVars

\* lines 64-65: a config that reports_filter does not name is passed over
SkipConfig ==
    /\ pc = "loop"
    /\ idx <= Len(docs)
    /\ ~Selected(idx)
    /\ idx' = idx + 1
    /\ UNCHANGED <<pc, docs, request, processed_count, raw_data, transformed_data,
                   response, trace>>
    /\ UNCHANGED pureVars

\* lines 66-85: the try block is entered, fetch_data built and
\* extract_data_from_api called; the source API answers api
ExtractData ==
    /\ pc = "loop"
    /\ idx <= Len(docs)
    /\ Selected(idx)
    /\ LET fetch_data == build_fetch_data(docs[idx].doc)
           entered == [trace[idx] EXCEPT !.attempted = TRUE]
       IN  IF Raised(fetch_data)
           THEN /\ except_config(idx, entered)
                /\ UNCHANGED raw_data
           ELSE \E api \in ApiOutcomes :
                    LET e == extract_data_from_api(fetch_data[2], request.start_date,
                                                   request.end_date, api)
                        observed == [entered EXCEPT
                                        !.extract_calls = 1,
                                        !.query_calls = e.query_calls,
                                        !.date_filter = e.date_filter,
                                        !.api = IF e.query_calls = 0 THEN "none"
                                                ELSE ApiSummary(api)]
                    IN  IF Raised(e.ret)
                        THEN /\ except_config(idx, observed)
                             /\ UNCHANGED raw_data
                        ELSE IF e.ret[2] = None
                        THEN /\ trace' = [trace EXCEPT ![idx] =
                                              [observed EXCEPT !.logged = "WARNING"]]
                             /\ idx' = idx + 1
                             /\ UNCHANGED <<pc, processed_count, response, raw_data>>
                        ELSE /\ trace' = [trace EXCEPT ![idx] = observed]
                             /\ raw_data' = e.ret[2]
                             /\ pc' = "transform"
                             /\ UNCHANGED <<idx, processed_count, response>>
    /\ UNCHANGED <<docs, request, transformed_data>>
    /\ UNCHANGED pureVars

\* lines 87-91: transform_data never raises
TransformData ==
    /\ pc = "transform"
    /\ transformed_data' = transform_data(raw_data, docs[idx].doc)
    /\ trace' = [trace EXCEPT ![idx].transformed =
                     IF IsList(transformed_data') THEN "records" ELSE "degraded"]
    /\ pc' = "load"
    /\ UNCHANGED <<docs, request, idx, processed_count, raw_data, response>>
    /\ UNCHANGED pureVars

\* lines 93-111: load_data_to_bq; the load job, when one is submitted,
\* ends as job
LoadData ==
    /\ pc = "load"
    /\ \E job \in {"ok", "error"} :
           LET l == load_data_to_bq(transformed_data, job)
               observed == [trace[idx] EXCEPT
                               !.load_jobs = l.load_jobs,
                               !.job = IF l.load_jobs = 0 THEN "none" ELSE job]
           IN  IF Raised(l.ret)
               THEN except_config(idx, observed)
               ELSE /\ trace' = [trace EXCEPT ![idx] = [observed EXCEPT !.logged = "INFO"]]
                    /\ processed_count' = processed_count + 1
                    /\ idx' = idx + 1
                    /\ pc' = "loop"
                    /\ UNCHANGED response
    /\ raw_data' = None
    /\ transformed_data' = None
    /\ UNCHANGED <<docs, request>>
    /\ UNCHANGED pureVars

\* lines 114-116
Respond ==
    /\ pc = "loop"
    /\ idx > Len(docs)
    /\ response' = [status |-> 200, processed |-> processed_count]
    /\ pc' = "done"
    /\ UNCHANGED <<docs, request, idx, processed_count, raw_data, transformed_data, trace>>
    /\ UNCHANGED pureVars

Next == Start \/ StartFails \/ SkipConfig \/ ExtractData \/ TransformData \/ LoadData \/ Respond

Spec == Init /\ [][Next]_vars

----------------------------------------------------------------------------
(* The reference parser of the field parser's contract, stated             *)
(* declaratively: positions of the first ':' and of the outermost          *)
(* non-blank characters, and per key the values of the items carrying it.  *)

RefTrim(s) ==
    LET solid == {i \in 1..Len(s) : ~IsSpace(s[i])}
    IN  IF solid = {} THEN <<>> ELSE SubSeq(s, Min(solid), Max(solid))

RefColons(s) == {i \in 1..Len(s) : s[i] = ":"}

RefKey(s, field_name) ==
    IF RefColons(s) = {}
    THEN field_name \o <<".", "u", "n", "t", "i", "t", "l", "e", "d">>
    ELSE LET left == RefTrim(SubSeq(s, 1, Min(RefColons(s)) - 1))
         IN  field_name \o <<".">> \o
                 [i \in 1..Len(left) |-> IF left[i] = " " THEN "_" ELSE left[i]]

RefValue(s) ==
    IF RefColons(s) = {} THEN s
    ELSE RefTrim(SubSeq(s, Min(RefColons(s)) + 1, Len(s)))

RECURSIVE RefJoin(_)
RefJoin(values) ==
    IF Len(values) = 1 THEN values[1]
    ELSE values[1] \o <<"/", "/">> \o RefJoin(Tail(values))

RefParse(items, field_name) ==
    IF ~IsList(items) THEN EmptyDict
    ELSE LET strs == SelectSeq(items[2], IsStr)
             keyAt(i) == RefKey(strs[i][2], field_name)
             \* the values carrying key k, in encounter order
             RECURSIVE valuesOf(_, _)
             valuesOf(k, i) ==
                 IF i > Len(strs) THEN <<>>
                 ELSE (IF keyAt(i) = k THEN <<RefValue(strs[i][2])>> ELSE <<>>)
                          \o valuesOf(k, i + 1)
         IN  [k \in {keyAt(i) : i \in 1..Len(strs)} |-> RefJoin(valuesOf(k, 1))]

Returned(f) == fn = f /\ out[1] = "returned"

----------------------------------------------------------------------------
(* transform_data *)

Labels(df) == {df[2].columns[i] : i \in 1..Len(df[2].columns)}

\* the cells of the column labelled col
Column(df, col) == df[2].data[CHOOSE i \in 1..Len(df[2].columns) : df[2].columns[i] = col]

\* C3: when an exception occurs inside transform_data, it does not raise: it
\* returns the input batch, with the values the caller passed, as a
\* DataFrame; on success it returns a list of records, so the two outcomes
\* differ in shape.
C3_DegradeReturnsRawBatch ==
    Returned("transform_data") =>
        /\ out[2][1] \in {"list", "DataFrame"}
        /\ out[3] # "none" => (IsDataFrame(out[2]) /\ out[2] = args.raw_df)
        /\ out[3] = "none" => IsList(out[2])

\* the date column is text and undeclared, so .dt raises after the likes
\* column was cast and the tags column parsed: the batch comes back as given
C3_Witness ==
    /\ Returned("transform_data")
    /\ out[3] = "AttributeError"
    /\ args.raw_df[2].nrows = 2
    /\ Labels(args.raw_df) = {lfm_content_tags, lfm_fact_date_str, tiktok_post_likes}
    /\ args.transform_config.metrics = PyDict(tiktok_post_likes :> "int64")
    /\ Column(args.raw_df, tiktok_post_likes)[1] = None
    /\ out[2] = args.raw_df

\* the type map of a well-formed config
TypeMapOf(transform_config) == columns_to_cast(transform_config)[2]

Declared(transform_config) == DOMAIN TypeMapOf(transform_config)

\* cells that are no number, and cells that are no date
NotANumber == {None, PyStr(unauthorized)}
NotADate == {None, PyStr(<<"n", "/", "a">>)}

\* C8: casting a declared column never raises whatever the cells hold; an
\* uncastable or missing cell becomes 0 (integer), 0.0 (float) or null
\* (timestamp); a column not both in the batch and in the type map is left
\* as it was.
C8_CastNeverRaises ==
    (Returned("transform_data") /\ args.transform_config \in WellFormedConfigs) =>
        LET type_map == TypeMapOf(args.transform_config)
            casted == cast_columns(args.raw_df, type_map)
        IN  /\ ~Raised(casted)
            /\ Labels(casted[2]) = Labels(args.raw_df)
            /\ \A c \in Labels(args.raw_df) :
                   IF c \notin DOMAIN type_map
                   THEN Column(casted[2], c) = Column(args.raw_df, c)
                   ELSE \A r \in 1..args.raw_df[2].nrows :
                            LET before == Column(args.raw_df, c)[r]
                                after == Column(casted[2], c)[r]
                            IN  /\ (type_map[c] = "int64" /\ before \in NotANumber)
                                       => after = PyInt(0)
                                /\ (type_map[c] = "float64" /\ before \in NotANumber)
                                       => after = PyFloat(0)
                                /\ (type_map[c] = "datetime64[ns]" /\ before \in NotADate)
                                       => after = NaT

\* the rest of C8 holds: the cast raises only for a non-finite value in an
\* integer column, and where it does not raise the fallbacks are as claimed
C8_CastRaisesOnlyOnNonFinite ==
    (Returned("transform_data") /\ args.transform_config \in WellFormedConfigs) =>
        LET type_map == TypeMapOf(args.transform_config)
            casted == cast_columns(args.raw_df, type_map)
        IN  IF Raised(casted)
            THEN \E c \in Labels(args.raw_df) \cap DOMAIN type_map :
                     /\ type_map[c] = "int64"
                     /\ \E r \in 1..args.raw_df[2].nrows :
                            Column(args.raw_df, c)[r] = PyStr(<<"i", "n", "f">>)
            ELSE C8_CastNeverRaises

\* label with each '.' written '&'
Sanitized(label) == [j \in 1..Len(label) |-> IF label[j] = "." THEN "&" ELSE label[j]]

\* key is the output name of column c, or of a column derived from it
DerivesFrom(key, c) ==
    /\ Len(key) >= Len(c)
    /\ SubSeq(key, 1, Len(c)) = Sanitized(c)
    /\ Len(key) > Len(c) => key[Len(c) + 1] = "&"

WithoutAbsent(transform_config, df) ==
    LET only(m) == PyDict([c \in DOMAIN m[2] \cap Labels(df) |-> m[2][c]])
    IN  [transform_config EXCEPT !.group_by = only(@),
                                 !.meta_dimensions = only(@),
                                 !.metrics = only(@)]

----------------------------------------------------------------------------
(* Properties of listenfirst_to_bq                                         *)

\* the loop is past config i
Past(i) == pc = "done" \/ idx > i

Complete(i) == required_fields \subseteq DOMAIN docs[i].doc

\* an exception was caught while config i was processed
Failed(i) == trace[i].logged = "ERROR"

\* extraction, transform and load of config i all completed: the source
\* API was queried and answered, transform_data gave a record list, and the
\* one load job submitted ended without error
FullyProcessed(i) ==
    /\ trace[i].extract_calls = 1
    /\ trace[i].query_calls >= 1
    /\ trace[i].api \notin {"none", "error"}
    /\ trace[i].transformed = "records"
    /\ trace[i].load_jobs = 1
    /\ trace[i].job = "ok"

\* C1: a failure while one config is processed (extraction error, transform
\* degrade, load error) never prevents a later config from being attempted:
\* every config the loop is past and reports_filter selects has entered its
\* try block, extract_data_from_api has been called once for it when its
\* document carries the fields fetch_data is built from; a caught failure
\* moves the loop to the next config; and once the loop is entered the
\* invocation ends with the 200 response, all configs passed.
C1_FailuresDoNotAbortRun ==
    /\ \A i \in DOMAIN docs :
           (idx > i /\ Selected(i)) =>
               /\ trace[i].attempted
               /\ Complete(i) => trace[i].extract_calls = 1
    /\ (pc = "done" /\ idx > 0) =>
           /\ response.status = 200
           /\ idx = Len(docs) + 1
    /\ \A i \in DOMAIN docs : Failed(i) => idx > i

\* the first config fails in its load job, the second is attempted and its
\* extraction called, and the invocation ends with 200
C1_Witness ==
    /\ pc = "done"
    /\ Len(docs) = 2
    /\ request.reports_filter = None
    /\ Failed(1)
    /\ trace[1].job = "error"
    /\ trace[2].attempted
    /\ trace[2].extract_calls = 1
    /\ response.status = 200

\* C2: the count equals the number of configs whose extraction, transform
\* and load all completed, at every point of the loop and in the 200
\* response; a config whose extraction, transform or load failed is not in it.
C2_CountIsFullyProcessed ==
    /\ processed_count = Cardinality({i \in DOMAIN docs : FullyProcessed(i)})
    /\ (pc = "done" /\ response.status = 200) =>
           response.processed = Cardinality({i \in DOMAIN docs : FullyProcessed(i)})
    /\ \A i \in DOMAIN docs : FullyProcessed(i) <=> trace[i].logged = "INFO"

\* of two configs one is fully processed and one fails in its load job: the
\* response counts 1
C2_Witness ==
    /\ pc = "done"
    /\ Len(docs) = 2
    /\ response.status = 200
    /\ response.processed = 1
    /\ \E i, j \in DOMAIN docs :
           /\ FullyProcessed(i)
           /\ trace[j].job = "error"
           /\ Failed(j)

\* C4: when transform_data degrades to passthrough for a config, no load job
\* is submitted for it and it is not counted as processed.
C4_DegradeIsNotLoaded ==
    /\ \A i \in DOMAIN docs :
           trace[i].transformed = "degraded" =>
               /\ trace[i].load_jobs = 0
               /\ trace[i].job = "none"
               /\ trace[i].logged # "INFO"
               /\ Past(i) => Failed(i)
    /\ processed_count <= Cardinality({i \in DOMAIN docs : trace[i].transformed = "records"})

\* a config whose transform degraded has been passed, and the count is 0
C4_Witness ==
    /\ pc = "done"
    /\ Len(docs) = 1
    /\ trace[1].transformed = "degraded"
    /\ Failed(1)
    /\ response = [status |-> 200, processed |-> 0]

\* C5: for a config document missing one of dataset_id, metrics, group_by,
\* meta_dimensions, brands, processing fails before any query of the source
\* API: no query call is observed for it, and nothing after extraction runs.
C5_IncompleteConfigNoQuery ==
    \A i \in DOMAIN docs :
        ~Complete(i) =>
            /\ trace[i].query_calls = 0
            /\ trace[i].api = "none"
            /\ trace[i].transformed = "none"
            /\ trace[i].load_jobs = 0
            /\ (Past(i) /\ trace[i].attempted) => Failed(i)

\* a config lacking a required field has been attempted and has failed
C5_Witness ==
    /\ pc = "done"
    /\ \E i \in DOMAIN docs :
           /\ ~Complete(i)
           /\ trace[i].attempted
           /\ Failed(i)
           /\ trace[i].query_calls = 0

\* C6: a config whose extraction yields no rows (the source API returns no
\* page, or pages without rows) is skipped: no transform and no load are
\* performed for it, it is not counted, and it is logged as a "no data"
\* skip (WARNING) and not as an error.
C6_NoRowsIsSkipped ==
    \A i \in DOMAIN docs :
        (Past(i) /\ trace[i].api \in {"no pages", "no rows"}) =>
            /\ trace[i].transformed = "none"
            /\ trace[i].load_jobs = 0
            /\ trace[i].logged = "WARNING"

\* what the code does of C6: such a config is never counted and no load job
\* is submitted for it, yet it always ends in the except clause, logged as
\* ERROR, and the "no data" branch of lines 80-85 is never taken
C6_NoRowsIsAnError ==
    \A i \in DOMAIN docs :
        /\ trace[i].logged # "WARNING"
        /\ (Past(i) /\ trace[i].api \in {"no pages", "no rows"}) =>
               /\ Failed(i)
               /\ trace[i].load_jobs = 0
               /\ ~FullyProcessed(i)
               /\ trace[i].api = "no pages" => trace[i].transformed = "none"
               /\ trace[i].api = "no rows" => trace[i].transformed = "records"

----------------------------------------------------------------------------
(* The end-to-end example of transform_data                                *)

\* the one-row batch {lfm.content.tags: ["views: 10", "views: 20",
\* "likes:5"], lfm.fact.date_str: "2024-01-15"}, the date held as cell
ExampleBatch(cell) ==
    Batch(1, <<"cells", <<PyList(<<PyStr(views_10), PyStr(views_20), PyStr(likes_5)>>)>>>>,
          <<"cells", <<cell>>>>, Absent)

\* the config declares lfm.content.tags in meta_dimensions and nothing else
DeclaresOnlyTags(transform_config) ==
    /\ transform_config \in WellFormedConfigs
    /\ Declared(transform_config) = {lfm_content_tags}

lfm_content_tags_views == lfm_content_tags \o <<".", "v", "i", "e", "w", "s">>
lfm_content_tags_likes == lfm_content_tags \o <<".", "l", "i", "k", "e", "s">>

\* the row the example expects
ExampleRow(row) ==
    /\ DOMAIN row = {Sanitized(lfm_content_tags_views), Sanitized(lfm_content_tags_likes),
                     Sanitized(lfm_fact_date_str)}
    /\ row[Sanitized(lfm_content_tags_views)] = PyStr(<<"1", "0", "/", "/", "2", "0">>)
    /\ row[Sanitized(lfm_content_tags_likes)] = PyStr(<<"5">>)
    /\ row[Sanitized(lfm_fact_date_str)] = PyStr(date_2024_01_15)

\* C11: the transform of the example batch, its date the text "2024-01-15",
\* with a config that declares only lfm.content.tags succeeds and returns one
\* record with lfm&content&tags&views = "10//20", lfm&content&tags&likes =
\* "5" and lfm&fact&date_str = "2024-01-15".
C11_EndToEndExample ==
    (/\ Returned("transform_data")
     /\ args.raw_df = ExampleBatch(PyStr(date_2024_01_15))
     /\ DeclaresOnlyTags(args.transform_config)
     /\ TypeMapOf(args.transform_config)[lfm_content_tags] = "object") =>
        /\ out[3] = "none"
        /\ IsList(out[2])
        /\ Len(out[2][2]) = 1
        /\ ExampleRow(out[2][2][1])

\* what the code does of C11: a date column held as text and not declared
\* datetime64[ns] is no datetime column, .dt at line 56 is an AttributeError
\* and the transform degrades to the raw batch; the example gives the
\* expected row when the date cell is a timestamp or the config declares
\* the date column datetime64[ns].  Whenever the transform succeeds, a
\* present date column is emitted as YYYY-MM-DD text, or as NaN for a date
\* that could not be parsed, and the nested column is replaced.
C11_DateTextDegrades ==
    Returned("transform_data") =>
        /\ (/\ args.raw_df = ExampleBatch(PyStr(date_2024_01_15))
            /\ DeclaresOnlyTags(args.transform_config)) =>
               /\ out[3] = "AttributeError"
               /\ out[2] = args.raw_df
        /\ (/\ \/ args.raw_df = ExampleBatch(Timestamp(2024, 1, 15, 0, 0, 0))
               \/ args.raw_df = ExampleBatch(PyStr(date_2024_01_15))
            /\ args.transform_config \in WellFormedConfigs
            /\ Declared(args.transform_config) \in
                   {{lfm_content_tags, lfm_fact_date_str},
                    IF args.raw_df = ExampleBatch(PyStr(date_2024_01_15))
                    THEN {lfm_content_tags, lfm_fact_date_str} ELSE {lfm_content_tags}}
            /\ TypeMapOf(args.transform_config)[lfm_content_tags] = "object") =>
               /\ out[3] = "none"
               /\ Len(out[2][2]) = 1
               /\ ExampleRow(out[2][2][1])
        /\ (out[3] = "none" /\ lfm_fact_date_str \in Labels(args.raw_df)) =>
               \A r \in 1..Len(out[2][2]) :
                   LET cell == out[2][2][r][Sanitized(lfm_fact_date_str)]
                   IN  \/ cell = NaN
                       \/ /\ IsStr(cell)
                          /\ to_datetime_str(cell[2]) # NaT
                          /\ Len(cell[2]) = 10
        /\ (out[3] = "none" /\ lfm_content_tags \in Labels(args.raw_df)) =>
               \A r \in 1..Len(out[2][2]) :
                   Sanitized(lfm_content_tags) \notin DOMAIN out[2][2][r]

----------------------------------------------------------------------------
(* Rows flagged unauthorized                                               *)

\* the rows of df that hold the marker in some column
UnauthorizedRows(df) ==
    {r \in 1..df[2].nrows :
         \E i \in 1..Len(df[2].columns) : df[2].data[i][r] = PyStr(unauthorized)}

\* df without its row r
WithoutRow(df, r) ==
    DataFrame(df[2].columns,
              df[2].dtypes,
              [i \in 1..Len(df[2].columns) |->
                  [k \in 1..(df[2].nrows - 1) |->
                      df[2].data[i][IF k < r THEN k ELSE k + 1]]],
              df[2].nrows - 1)

\* C12: transform drops every row that holds the literal "unauthorized" in a
\* retained column: of a batch of N rows of which exactly one is
\* unauthorized, a successful transform gives the N-1 records of the other
\* rows, in their order.
C12_UnauthorizedRowDropped ==
    (/\ Returned("transform_data")
     /\ out[3] = "none"
     /\ Cardinality(UnauthorizedRows(args.raw_df)) = 1) =>
        /\ Len(out[2][2]) = args.raw_df[2].nrows - 1
        /\ out[2] = transform_data(
                        WithoutRow(args.raw_df,
                                   CHOOSE r \in UnauthorizedRows(args.raw_df) : TRUE),
                        args.transform_config)

\* what the code does of C12: transform_data has no such filter and no
\* switch for one; a successful transform gives one record per input row,
\* the unauthorized ones included, and where the marker's column is not
\* cast the marker itself is in the output
C12_NoRowIsDropped ==
    (Returned("transform_data") /\ out[3] = "none") =>
        /\ Len(out[2][2]) = args.raw_df[2].nrows
        /\ \A r \in UnauthorizedRows(args.raw_df) :
               tiktok_post_likes \notin Declared(args.transform_config) =>
                   out[2][2][r][Sanitized(tiktok_post_likes)] = PyStr(unauthorized)

----------------------------------------------------------------------------
(* Relative-date templates that cannot be parsed                           *)

\* d is not of the form {{nDaysAgo <N>}}
Unparseable(d) == ~IsStr(d) \/ findall_nDaysAgo(d[2]) = <<>>

\* config i is of a content dataset and the request's start_date or
\* end_date cannot be parsed
BadDates(i) ==
    /\ Complete(i)
    /\ Contains(docs[i].doc.dataset_id, <<"c", "o", "n", "t", "e", "n", "t">>)
    /\ Unparseable(request.start_date) \/ Unparseable(request.end_date)

\* C13: when start_date or end_date of a content dataset's config is not of
\* the form {{nDaysAgo <N>}}, the extraction of that config is aborted with
\* an error before the source API is queried, the config is not counted as
\* processed, and the run goes on with the next config.
C13_BadDatesAbortExtraction ==
    \A i \in DOMAIN docs :
        (BadDates(i) /\ trace[i].attempted /\ Past(i)) =>
            /\ trace[i].query_calls = 0
            /\ Failed(i)
            /\ ~FullyProcessed(i)

\* what the code does of C13: format_date catches its own exception and
\* returns None, so the try of lines 59-79 never raises for a date; the
\* query is issued, with None in the date filter in place of each date that
\* could not be parsed, and the config ends as the API's answer decides
C13_BadDatesStillQuery ==
    \A i \in DOMAIN docs :
        (BadDates(i) /\ trace[i].extract_calls = 1) =>
            /\ trace[i].query_calls = 1
            /\ trace[i].date_filter =
                   <<format_date(request.start_date), format_date(request.end_date)>>
            /\ None \in {trace[i].date_filter[1], trace[i].date_filter[2]}
            /\ (Past(i) /\ trace[i].api = "error") => Failed(i)

\* a config with dates that cannot be parsed is fully processed and counted
C13_BadDatesCounted ==
    /\ pc = "done"
    /\ response.status = 200
    /\ response.processed >= 1
    /\ \E i \in DOMAIN docs : BadDates(i) /\ FullyProcessed(i)

====
